---- MODULE Spec2Model ----
(***************************************************************************)
(* A model of src/src/index.ts: the StreamingJsonParser session            *)
(* (appendChunk / reset / getCurrentData / updateConfig) and the balancer  *)
(* it runs on every append (balanceQuotes, then balanceBrackets).          *)
(*                                                                         *)
(* A text is a sequence of one-character strings.  Positions recorded in   *)
(* the insertion records are 0-based offsets, as in the source.            *)
(***************************************************************************)
EXTENDS Integers, Sequences, FiniteSets, TLC

VARIABLES
    config,             \* this.config
    lastParsedData,     \* this.lastParsedData
    lastBalancedString, \* this.lastBalancedString
    addedDummyValues,   \* this.addedDummyValues
    input,              \* the argument of the last validateAndBalance call
    raw,                \* the chunks appended since construction or reset, concatenated
    op,                 \* the operation that ran last
    ret,                \* the value that operation returned
    history,            \* what is remembered of the calls made so far: phase
                        \* ("new": constructed, nothing appended; "once":
                        \* constructed, appended to once; "reset": reset,
                        \* nothing appended since; "later": anything else),
                        \* and the return value (ret) and returnParsedJson
                        \* (mode) of the last appendChunk since then
    partial,            \* the argument of updateConfig, if it ran last
    other,              \* a second StreamingJsonParser, parked while the
                        \* calls are made on the first: its fields, and its
                        \* input, raw and history
    defaultConfig       \* the module's DEFAULT_CONFIG object

vars == <<config, lastParsedData, lastBalancedString, addedDummyValues,
          input, raw, op, ret, history, partial, other, defaultConfig>>

(***************************************************************************)
(* Bounds of the model.                                                    *)
(***************************************************************************)
\* the longest stream (sum of the chunk lengths) fed to a session whose
\* configuration stays as constructed
MaxLen == 3
\* the longest stream fed to a session that is also reset, read and reconfigured
MaxSessionLen == 2
\* the longest single chunk
MaxChunk == 2
\* the longest text balanced in one call
MaxOneShot == 4
\* the longest stream fed to each of two sessions used in turn
MaxPairLen == 2

(***************************************************************************)
(* Characters.                                                             *)
(***************************************************************************)
DQ == "\""
SQ == "'"
BS == "\\"
SP == " "

\* the characters a chunk is made of: every class the scanners tell apart
\* (brackets, both quotes, backslash, colon, comma, whitespace, other)
Alphabet == {"{", "}", "[", "]", DQ, SQ, BS, ":", ",", SP, "1"}

RECURSIVE TextsOfLen(_)
TextsOfLen(n) ==
    IF n = 0 THEN {<<>>}
    ELSE {Append(t, c) : t \in TextsOfLen(n - 1), c \in Alphabet}

TextsUpTo(n) == UNION {TextsOfLen(k) : k \in 0..n}

Chunks == TextsUpTo(MaxChunk)

\* the characters of the chunks fed to a session that is also reset, read and
\* reconfigured: enough for texts that decode, texts that do not, and texts
\* the balancer has to close
SessionAlphabet == {"[", "]", DQ, ",", "1"}

\* the characters of the texts balanced in one call: the openers, a closer,
\* the colon, both quotes and the backslash
OneShotAlphabet == {"{", "}", "[", ":", DQ, SQ, BS}

\* the characters of the chunks fed to two sessions used in turn
PairAlphabet == {"[", ","}

RECURSIVE TextsOver(_, _)
TextsOver(alphabet, n) ==
    IF n = 0 THEN {<<>>}
    ELSE {Append(t, c) : t \in TextsOver(alphabet, n - 1), c \in alphabet}

\* 'null' as a text
NullText == <<"n", "u", "l", "l">>

\* String.prototype.endsWith / slice(0, -n)
EndsWith(s, suffix) ==
    /\ Len(suffix) <= Len(s)
    /\ SubSeq(s, Len(s) - Len(suffix) + 1, Len(s)) = suffix

DropLast(s, n) == SubSeq(s, 1, Len(s) - n)

IsPrefix(p, s) == Len(p) <= Len(s) /\ SubSeq(s, 1, Len(p)) = p

(***************************************************************************)
(* Configuration.                                                          *)
(***************************************************************************)
QuoteTypes == {"double", "single", "both"}

\* the dummyValues objects a caller configures: the null entry, written as the
\* JSON literal of its value (null, or 0); the string, number and boolean
\* entries are left out
DummyValues == {[null |-> NullText], [null |-> <<"0">>]}

Configs == [balanceQuotes : BOOLEAN, quoteType : QuoteTypes,
            returnParsedJson : BOOLEAN, dummyValues : DummyValues]

DEFAULT_CONFIG ==
    [balanceQuotes |-> TRUE, quoteType |-> "both", returnParsedJson |-> FALSE,
     dummyValues |-> [null |-> NullText]]

\* the fields of the configuration the source reads
ConfigFields == {"balanceQuotes", "quoteType", "returnParsedJson"}

AllConfigFields == ConfigFields \cup {"dummyValues"}

\* the partial configurations over the fields fs: the fields supplied (has)
\* and their values (val); the fields of val that are not supplied are not read
PartialConfigsOver(fs) ==
    {p \in [has : SUBSET fs, val : Configs] :
        \A f \in AllConfigFields \ p.has : p.val[f] = DEFAULT_CONFIG[f]}

\* the partial configurations that leave dummyValues alone
PartialConfigs == PartialConfigsOver(ConfigFields)

\* the partial configurations, dummyValues included
PartialConfigsWithDummyValues == PartialConfigsOver(AllConfigFields)

\* the partial configurations that supply at most one field: enough to take a
\* session from any configuration to any other, one updateConfig per field
SingleFieldPartials == {p \in PartialConfigs : Cardinality(p.has) <= 1}

\* the partial configurations two sessions used in turn are given
PairPartials == PartialConfigsOver({"returnParsedJson"})

\* updateConfig did not run last
NoPartial == [has |-> {}, val |-> DEFAULT_CONFIG]

\* Merge over the default configuration, whatever the base: { ...DEFAULT_CONFIG, ...over }
Merge_OverDefault(base, over) ==
    [f \in AllConfigFields |->
        IF f \in over.has THEN over.val[f] ELSE DEFAULT_CONFIG[f]]

\* { ...base, ...over }
Merge(base, over) ==
    [balanceQuotes |-> IF "balanceQuotes" \in over.has
                       THEN over.val.balanceQuotes ELSE base.balanceQuotes,
     quoteType |-> IF "quoteType" \in over.has
                   THEN over.val.quoteType ELSE base.quoteType,
     returnParsedJson |-> IF "returnParsedJson" \in over.has
                          THEN over.val.returnParsedJson
                          ELSE base.returnParsedJson,
     dummyValues |-> IF "dummyValues" \in over.has
                     THEN over.val.dummyValues ELSE base.dummyValues]

(***************************************************************************)
(* balanceQuotes: the quote pass.                                          *)
(***************************************************************************)
QuoteInit == [inString |-> FALSE, stringChar |-> "", escaped |-> FALSE]

shouldProcessQuote(quoteType, char) ==
    \/ quoteType = "both"
    \/ (quoteType = "double" /\ char = DQ)
    \/ (quoteType = "single" /\ char = SQ)

\* one iteration of the loop of balanceQuotes
QuoteStep(st, char, quoteType) ==
    IF st.escaped THEN [st EXCEPT !.escaped = FALSE]
    ELSE IF char = BS THEN [st EXCEPT !.escaped = TRUE]
    ELSE IF shouldProcessQuote(quoteType, char) /\ (char = DQ \/ char = SQ)
    THEN IF ~st.inString
         THEN [st EXCEPT !.inString = TRUE, !.stringChar = char]
         ELSE IF char = st.stringChar
              THEN [st EXCEPT !.inString = FALSE, !.stringChar = ""]
              ELSE st
    ELSE st

RECURSIVE QuoteScanFrom(_, _, _, _)
QuoteScanFrom(s, i, st, quoteType) ==
    IF i > Len(s) THEN st
    ELSE QuoteScanFrom(s, i + 1, QuoteStep(st, s[i], quoteType), quoteType)

QuoteScan(s, quoteType) == QuoteScanFrom(s, 1, QuoteInit, quoteType)

\* balanceQuotes closing every open string with a double quote
balanceQuotes_AlwaysDouble(s, quoteType) ==
    LET st == QuoteScan(s, quoteType) IN
    IF st.inString /\ st.stringChar # ""
    THEN [balanced |-> Append(s, DQ),
          dummyValues |-> << [position |-> Len(s), value |-> <<DQ>>,
                              type |-> "quote"] >>]
    ELSE [balanced |-> s, dummyValues |-> <<>>]

\* balanceQuotes appending no quote right after a backslash
balanceQuotes_NotAfterBackslash(s, quoteType) ==
    LET st == QuoteScan(s, quoteType) IN
    IF st.inString /\ st.stringChar # "" /\ ~st.escaped
    THEN [balanced |-> Append(s, st.stringChar),
          dummyValues |-> << [position |-> Len(s), value |-> <<st.stringChar>>,
                              type |-> "quote"] >>]
    ELSE [balanced |-> s, dummyValues |-> <<>>]

balanceQuotes(s, quoteType) ==
    LET st == QuoteScan(s, quoteType) IN
    IF st.inString /\ st.stringChar # ""
    THEN [balanced |-> Append(s, st.stringChar),
          dummyValues |-> << [position |-> Len(s),
                              value |-> <<st.stringChar>>,
                              type |-> "quote"] >>]
    ELSE [balanced |-> s, dummyValues |-> <<>>]

(***************************************************************************)
(* balanceBrackets: the bracket pass.                                      *)
(***************************************************************************)
BracketInit ==
    [stack |-> <<>>, inString |-> FALSE, stringChar |-> "", escaped |-> FALSE,
     lastNonWhitespaceChar |-> "", lastNonWhitespaceIndex |-> -1]

\* char.trim() !== ''
IsWhitespace(char) == char = SP

Closer(char) == IF char = "{" THEN "}" ELSE "]"

\* the quote handling of one iteration of the loop of balanceBrackets
BracketQuoteStep(st, char) ==
    IF (char = DQ \/ char = SQ) /\ ~st.inString
    THEN [st EXCEPT !.inString = TRUE, !.stringChar = char]
    ELSE IF char = st.stringChar /\ st.inString
         THEN [st EXCEPT !.inString = FALSE, !.stringChar = ""]
         ELSE st

\* BracketStackStep popping on every closer, matching or not
BracketStackStep_PopsAnyCloser(stack, char) ==
    IF char = "{" \/ char = "["
    THEN Append(stack, Closer(char))
    ELSE IF char = "}" \/ char = "]"
         THEN IF Len(stack) > 0 THEN DropLast(stack, 1) ELSE stack
         ELSE stack

\* the stack handling of one iteration (runs when not in a string)
BracketStackStep(stack, char) ==
    IF char = "{" \/ char = "["
    THEN Append(stack, Closer(char))
    ELSE IF char = "}" \/ char = "]"
         THEN IF Len(stack) > 0 /\ stack[Len(stack)] = char
              THEN DropLast(stack, 1)
              ELSE stack
         ELSE stack

\* BracketStep without the test that the character lies outside a string
BracketStep_IgnoreString(st, char, i) ==
    IF st.escaped THEN [st EXCEPT !.escaped = FALSE]
    ELSE IF char = BS THEN [st EXCEPT !.escaped = TRUE]
    ELSE LET q == BracketQuoteStep(st, char)
             b == [q EXCEPT !.stack = BracketStackStep(q.stack, char)]
         IN  IF ~IsWhitespace(char)
             THEN [b EXCEPT !.lastNonWhitespaceChar = char,
                            !.lastNonWhitespaceIndex = i]
             ELSE b

\* BracketStep with the backslash an escape inside strings only
BracketStep_EscapeInStringOnly(st, char, i) ==
    IF st.escaped THEN [st EXCEPT !.escaped = FALSE]
    ELSE IF char = BS /\ st.inString THEN [st EXCEPT !.escaped = TRUE]
    ELSE LET q == BracketQuoteStep(st, char) IN
         IF q.inString THEN q
         ELSE LET b == [q EXCEPT !.stack = BracketStackStep(q.stack, char)] IN
              IF ~IsWhitespace(char)
              THEN [b EXCEPT !.lastNonWhitespaceChar = char,
                             !.lastNonWhitespaceIndex = i]
              ELSE b

\* one iteration of the loop of balanceBrackets; i is the 0-based index
BracketStep(st, char, i) ==
    IF st.escaped THEN [st EXCEPT !.escaped = FALSE]
    ELSE IF char = BS THEN [st EXCEPT !.escaped = TRUE]
    ELSE LET q == BracketQuoteStep(st, char) IN
         IF q.inString THEN q
         ELSE LET b == [q EXCEPT !.stack = BracketStackStep(q.stack, char)] IN
              IF ~IsWhitespace(char)
              THEN [b EXCEPT !.lastNonWhitespaceChar = char,
                             !.lastNonWhitespaceIndex = i]
              ELSE b

RECURSIVE BracketScanFrom(_, _, _)
BracketScanFrom(s, i, st) ==
    IF i > Len(s) THEN st
    ELSE BracketScanFrom(s, i + 1, BracketStep(st, s[i], i - 1))

BracketScan(s) == BracketScanFrom(s, 1, BracketInit)

\* const needsValue = ...
needsValue(st) ==
    \/ st.lastNonWhitespaceChar = ":"
    \/ st.lastNonWhitespaceChar = "["
    \/ st.lastNonWhitespaceChar = ","

\* AddValue with the trailing comma stripped before the closers are appended
AddValue_StripComma(s, st) ==
    IF Len(st.stack) > 0 /\ st.lastNonWhitespaceChar = ":"
    THEN [balanced |-> s \o NullText,
          dummyValues |-> << [position |-> Len(s), value |-> NullText,
                              type |-> "value"] >>]
    ELSE IF Len(st.stack) > 0 /\ st.lastNonWhitespaceChar = ","
         THEN [balanced |-> SubSeq(s, 1, st.lastNonWhitespaceIndex)
                            \o SubSeq(s, st.lastNonWhitespaceIndex + 2, Len(s)),
               dummyValues |-> <<>>]
         ELSE [balanced |-> s, dummyValues |-> <<>>]

\* AddValue without the test that a bracket is still open
AddValue_NoStackCheck(s, st) ==
    IF st.lastNonWhitespaceChar = ":"
    THEN [balanced |-> s \o NullText,
          dummyValues |-> << [position |-> Len(s), value |-> NullText,
                              type |-> "value"] >>]
    ELSE [balanced |-> s, dummyValues |-> <<>>]

\* AddValue with a placeholder after a trailing comma as well
AddValue_AfterComma(s, st) ==
    IF Len(st.stack) > 0 /\ st.lastNonWhitespaceChar \in {":", ","}
    THEN [balanced |-> s \o NullText,
          dummyValues |-> << [position |-> Len(s), value |-> NullText,
                              type |-> "value"] >>]
    ELSE [balanced |-> s, dummyValues |-> <<>>]

\* AddValue recording the position of the last character of the placeholder
AddValue_PositionOfLast(s, st) ==
    IF needsValue(st) /\ Len(st.stack) > 0 /\ st.lastNonWhitespaceChar = ":"
    THEN [balanced |-> s \o NullText,
          dummyValues |-> << [position |-> Len(s) + Len(NullText) - 1,
                              value |-> NullText, type |-> "value"] >>]
    ELSE [balanced |-> s, dummyValues |-> <<>>]

\* the placeholder step: [balanced, dummyValues] after 'if (needsValue && ...)'
AddValue(s, st) ==
    IF needsValue(st) /\ Len(st.stack) > 0 /\ st.lastNonWhitespaceChar = ":"
    THEN [balanced |-> s \o NullText,
          dummyValues |-> << [position |-> Len(s), value |-> NullText,
                              type |-> "value"] >>]
    ELSE [balanced |-> s, dummyValues |-> <<>>]

\* CloseBrackets taking the closers from the bottom of the stack (shift for pop)
RECURSIVE CloseBrackets_FIFO(_, _, _)
CloseBrackets_FIFO(result, dummies, stack) ==
    IF Len(stack) = 0 THEN [balanced |-> result, dummyValues |-> dummies]
    ELSE LET closingBracket == Head(stack) IN
         CloseBrackets_FIFO(Append(result, closingBracket),
                            Append(dummies, [position |-> Len(result),
                                             value |-> <<closingBracket>>,
                                             type |-> "bracket"]),
                            Tail(stack))

\* the closing loop: pops the stack, appending each closer
RECURSIVE CloseBrackets(_, _, _)
CloseBrackets(result, dummies, stack) ==
    IF Len(stack) = 0 THEN [balanced |-> result, dummyValues |-> dummies]
    ELSE LET closingBracket == stack[Len(stack)] IN
         CloseBrackets(Append(result, closingBracket),
                       Append(dummies, [position |-> Len(result),
                                        value |-> <<closingBracket>>,
                                        type |-> "bracket"]),
                       DropLast(stack, 1))

balanceBrackets(s) ==
    LET st == BracketScan(s)
        v  == AddValue(s, st)
    IN  CloseBrackets(v.balanced, v.dummyValues, st.stack)

(***************************************************************************)
(* validateAndBalance.                                                     *)
(***************************************************************************)
\* validateAndBalance running the quote pass whatever balanceQuotes says
validateAndBalance_AlwaysQuotes(s, cfg) ==
    IF s = <<>> THEN [balanced |-> <<>>, dummyValues |-> <<>>]
    ELSE LET quoteResult == balanceQuotes(s, cfg.quoteType)
             bracketResult == balanceBrackets(quoteResult.balanced)
         IN  [balanced |-> bracketResult.balanced,
              dummyValues |-> quoteResult.dummyValues \o bracketResult.dummyValues]

validateAndBalance(s, cfg) ==
    IF s = <<>> THEN [balanced |-> <<>>, dummyValues |-> <<>>]
    ELSE LET quoteResult ==
                 IF cfg.balanceQuotes THEN balanceQuotes(s, cfg.quoteType)
                 ELSE [balanced |-> s, dummyValues |-> <<>>]
             bracketResult == balanceBrackets(quoteResult.balanced)
         IN  [balanced |-> bracketResult.balanced,
              dummyValues |-> quoteResult.dummyValues \o bracketResult.dummyValues]

(***************************************************************************)
(* JSON.parse, the host's decoder, on the characters of the model:         *)
(* whitespace is the space, a number is a run of the digit 1, a string is  *)
(* double-quoted with the escapes for quote, backslash, newline and a     *)
(* four-digit code unit; the only literal that can be spelled is null.     *)
(* an object is a function from its keys to its values.                    *)
(***************************************************************************)
Fail == [ok |-> FALSE]

JsNull == [t |-> "null"]
JsUndefined == [t |-> "undefined"]
JsString(text) == [t |-> "str", str |-> text]

RECURSIVE SkipWs(_, _)
SkipWs(s, i) ==
    IF i <= Len(s) /\ s[i] = SP THEN SkipWs(s, i + 1) ELSE i

RECURSIVE ParseStringFrom(_, _, _)
ParseStringFrom(s, i, acc) ==
    IF i > Len(s) THEN Fail
    ELSE IF s[i] = DQ
    THEN [ok |-> TRUE, val |-> JsString(acc), next |-> i + 1]
    ELSE IF s[i] = BS
    THEN IF i + 1 > Len(s) THEN Fail
         ELSE IF s[i + 1] = DQ \/ s[i + 1] = BS
         THEN ParseStringFrom(s, i + 2, Append(acc, s[i + 1]))
         ELSE IF s[i + 1] = "n"
         THEN ParseStringFrom(s, i + 2, Append(acc, "LF"))
         ELSE IF s[i + 1] = "u" /\ i + 5 <= Len(s)
                 /\ \A k \in (i + 2)..(i + 5) : s[k] = "1"
         THEN ParseStringFrom(s, i + 6, Append(acc, "U+1111"))
         ELSE Fail
    ELSE ParseStringFrom(s, i + 1, Append(acc, s[i]))

RECURSIVE ParseNumberFrom(_, _, _)
ParseNumberFrom(s, i, acc) ==
    IF i <= Len(s) /\ s[i] = "1"
    THEN ParseNumberFrom(s, i + 1, 10 * acc + 1)
    ELSE [ok |-> TRUE, val |-> [t |-> "num", num |-> acc], next |-> i]

RECURSIVE ParseValue(_, _)
RECURSIVE ParseElements(_, _, _)
RECURSIVE ParseMembers(_, _, _)

\* a value starting at s[i]
ParseValue(s, i) ==
    IF i > Len(s) THEN Fail
    ELSE IF s[i] = DQ THEN ParseStringFrom(s, i + 1, <<>>)
    ELSE IF s[i] = "1" THEN ParseNumberFrom(s, i, 0)
    ELSE IF s[i] = "n"
    THEN IF i + 3 <= Len(s) /\ SubSeq(s, i, i + 3) = NullText
         THEN [ok |-> TRUE, val |-> JsNull, next |-> i + 4]
         ELSE Fail
    ELSE IF s[i] = "["
    THEN LET j == SkipWs(s, i + 1) IN
         IF j <= Len(s) /\ s[j] = "]"
         THEN [ok |-> TRUE, val |-> [t |-> "arr", arr |-> <<>>], next |-> j + 1]
         ELSE ParseElements(s, j, <<>>)
    ELSE IF s[i] = "{"
    THEN LET j == SkipWs(s, i + 1) IN
         IF j <= Len(s) /\ s[j] = "}"
         THEN [ok |-> TRUE, val |-> [t |-> "obj", obj |-> <<>>], next |-> j + 1]
         ELSE ParseMembers(s, j, <<>>)
    ELSE Fail

\* the elements of an array, the next one starting at s[i]
ParseElements(s, i, acc) ==
    LET e == ParseValue(s, i) IN
    IF ~e.ok THEN Fail
    ELSE LET j == SkipWs(s, e.next) IN
         IF j > Len(s) THEN Fail
         ELSE IF s[j] = "]"
         THEN [ok |-> TRUE, val |-> [t |-> "arr", arr |-> Append(acc, e.val)],
               next |-> j + 1]
         ELSE IF s[j] = ","
         THEN ParseElements(s, SkipWs(s, j + 1), Append(acc, e.val))
         ELSE Fail

\* the members of an object, the next key starting at s[i]
ParseMembers(s, i, acc) ==
    IF i > Len(s) \/ s[i] # DQ THEN Fail
    ELSE LET k == ParseStringFrom(s, i + 1, <<>>) IN
         IF ~k.ok THEN Fail
         ELSE LET c == SkipWs(s, k.next) IN
              IF c > Len(s) \/ s[c] # ":" THEN Fail
              ELSE LET v == ParseValue(s, SkipWs(s, c + 1)) IN
                   IF ~v.ok THEN Fail
                   ELSE LET j == SkipWs(s, v.next)
                            members == (k.val.str :> v.val) @@ acc
                        IN  IF j > Len(s) THEN Fail
                            ELSE IF s[j] = "}"
                            THEN [ok |-> TRUE,
                                  val |-> [t |-> "obj", obj |-> members],
                                  next |-> j + 1]
                            ELSE IF s[j] = ","
                            THEN ParseMembers(s, SkipWs(s, j + 1), members)
                            ELSE Fail

\* JSON.parse(s): ok is FALSE where JSON.parse throws
JSONparse(s) ==
    LET r == ParseValue(s, SkipWs(s, 1)) IN
    IF r.ok /\ SkipWs(s, r.next) > Len(s)
    THEN [ok |-> TRUE, val |-> r.val]
    ELSE Fail

(***************************************************************************)
(* The session: StreamingJsonParser.                                       *)
(***************************************************************************)
\* [...].sort((a, b) => b.position - a.position): stable, descending
RECURSIVE InsertDesc(_, _)
InsertDesc(sorted, d) ==
    IF sorted = <<>> THEN <<d>>
    ELSE IF Head(sorted).position >= d.position
         THEN <<Head(sorted)>> \o InsertDesc(Tail(sorted), d)
         ELSE <<d>> \o sorted

\* SortDesc with the sort left out: the records in their order of creation
SortDesc_Unsorted(ds) == ds

RECURSIVE SortDesc(_)
SortDesc(ds) ==
    IF ds = <<>> THEN <<>>
    ELSE InsertDesc(SortDesc(DropLast(ds, 1)), ds[Len(ds)])

\* RemoveDummies with the retraction left out
RemoveDummies_None(baseData, sortedDummies) == baseData

\* the retraction loop: for (const dummy of sortedDummies) ...
RECURSIVE RemoveDummies(_, _)
RemoveDummies(baseData, sortedDummies) ==
    IF sortedDummies = <<>> THEN baseData
    ELSE LET dummy == Head(sortedDummies) IN
         RemoveDummies(IF EndsWith(baseData, dummy.value)
                       THEN DropLast(baseData, Len(dummy.value))
                       ELSE baseData,
                       Tail(sortedDummies))

\* the text appendChunk hands to validateAndBalance
NewInput(chunk) ==
    IF lastBalancedString = <<>> THEN chunk
    ELSE RemoveDummies(lastBalancedString, SortDesc(addedDummyValues)) \o chunk

\* the history of a session nothing has been appended to
NoAppend(phase) == [phase |-> phase, ret |-> JsUndefined, mode |-> FALSE]

\* new StreamingJsonParser(p), as the session the calls are made on
Constructed(p) ==
    /\ defaultConfig = DEFAULT_CONFIG
    /\ config = Merge(defaultConfig, p)
    /\ lastParsedData = JsNull
    /\ lastBalancedString = <<>>
    /\ addedDummyValues = <<>>
    /\ input = <<>>
    /\ raw = <<>>
    /\ op = "new"
    /\ ret = JsUndefined
    /\ history = NoAppend("new")
    /\ partial = NoPartial

\* new StreamingJsonParser(p), parked
Fresh(p) ==
    [config |-> Merge(DEFAULT_CONFIG, p), lastParsedData |-> JsNull,
     lastBalancedString |-> <<>>, addedDummyValues |-> <<>>,
     input |-> <<>>, raw |-> <<>>, history |-> NoAppend("new")]

Init ==
    /\ \E p \in PartialConfigs : Constructed(p)
    /\ other = Fresh(NoPartial)

\* Returned with the stored parsed value's initial null on a decode failure
Returned_NullOnFailure(cfg, balanced) ==
    LET parsed == JSONparse(balanced) IN
    IF cfg.returnParsedJson
    THEN IF parsed.ok THEN parsed.val ELSE JsNull
    ELSE JsString(balanced)

\* Returned with nothing returned from the catch block
Returned_NothingOnFailure(cfg, balanced) ==
    LET parsed == JSONparse(balanced) IN
    IF cfg.returnParsedJson
    THEN IF parsed.ok THEN parsed.val ELSE JsUndefined
    ELSE JsString(balanced)

\* Returned decoding whatever returnParsedJson says
Returned_IgnoresMode(cfg, balanced) ==
    LET parsed == JSONparse(balanced) IN
    IF parsed.ok THEN parsed.val ELSE JsString(balanced)

\* the value appendChunk returns once the balanced text is stored
Returned(cfg, balanced) ==
    LET parsed == JSONparse(balanced) IN
    IF cfg.returnParsedJson /\ parsed.ok THEN parsed.val
    ELSE JsString(balanced)

\* ParsedData with the decoded value never stored
ParsedData_NeverStored(cfg, balanced, previous) == previous

\* this.lastParsedData after appendChunk: assigned only by a decode that succeeds
ParsedData(cfg, balanced, previous) ==
    LET parsed == JSONparse(balanced) IN
    IF cfg.returnParsedJson /\ parsed.ok THEN parsed.val ELSE previous

\* validateStreamingJson(text, cfg): a fresh session, one appendChunk
validateStreamingJson(text, cfg) ==
    Returned(cfg, validateAndBalance(text, cfg).balanced)

AppendChunk(chunk) ==
    /\ LET newInput == NewInput(chunk)
           balancedResult == validateAndBalance(newInput, config)
       IN  /\ lastBalancedString' = balancedResult.balanced
           /\ addedDummyValues' = balancedResult.dummyValues
           /\ input' = newInput
           /\ lastParsedData' =
                  ParsedData(config, balancedResult.balanced, lastParsedData)
           /\ ret' = Returned(config, balancedResult.balanced)
    /\ raw' = raw \o chunk
    /\ op' = "appendChunk"
    /\ history' = [phase |-> IF history.phase = "new" THEN "once" ELSE "later",
                   ret |-> ret', mode |-> config.returnParsedJson]
    /\ partial' = NoPartial
    /\ UNCHANGED <<config, other, defaultConfig>>

\* Reset with the three fields shared by every session (static fields)
Reset_SharedFields ==
    /\ lastParsedData' = JsNull
    /\ lastBalancedString' = <<>>
    /\ addedDummyValues' = <<>>
    /\ raw' = <<>>
    /\ op' = "reset"
    /\ ret' = JsUndefined
    /\ history' = NoAppend("reset")
    /\ partial' = NoPartial
    /\ other' = [other EXCEPT !.lastParsedData = JsNull,
                              !.lastBalancedString = <<>>,
                              !.addedDummyValues = <<>>]
    /\ UNCHANGED <<config, input, defaultConfig>>

\* Reset leaving the stored parsed value in place
Reset_KeepsParsedData ==
    /\ lastBalancedString' = <<>>
    /\ addedDummyValues' = <<>>
    /\ raw' = <<>>
    /\ op' = "reset"
    /\ ret' = JsUndefined
    /\ history' = NoAppend("reset")
    /\ partial' = NoPartial
    /\ UNCHANGED <<config, input, lastParsedData, other, defaultConfig>>

Reset ==
    /\ lastParsedData' = JsNull
    /\ lastBalancedString' = <<>>
    /\ addedDummyValues' = <<>>
    /\ raw' = <<>>
    /\ op' = "reset"
    /\ ret' = JsUndefined
    /\ history' = NoAppend("reset")
    /\ partial' = NoPartial
    /\ UNCHANGED <<config, input, other, defaultConfig>>

\* CurrentData as the balanced text whatever returnParsedJson says
CurrentData_AlwaysText == JsString(lastBalancedString)

\* the value getCurrentData returns in the current state
CurrentData ==
    IF config.returnParsedJson THEN lastParsedData
    ELSE JsString(lastBalancedString)

GetCurrentData ==
    /\ ret' = CurrentData
    /\ op' = "getCurrentData"
    /\ partial' = NoPartial
    /\ UNCHANGED <<config, lastParsedData, lastBalancedString,
                   addedDummyValues, input, raw, history, other, defaultConfig>>

UpdateConfig(p) ==
    /\ config' = Merge(config, p)
    /\ op' = "updateConfig"
    /\ ret' = JsUndefined
    /\ partial' = p
    /\ UNCHANGED <<lastParsedData, lastBalancedString, addedDummyValues,
                   input, raw, history, other, defaultConfig>>

\* the stream so far, with this chunk, stays within the bound n
Fits(chunk, n) == Len(raw) + Len(chunk) <= n

Min(a, b) == IF a <= b THEN a ELSE b

\* the chunks c with Fits(c, n): those no longer than MaxChunk and than what
\* is left of n
FittingLengths(n) == 0..Min(MaxChunk, n - Len(raw))

Next ==
    \/ \E k \in FittingLengths(MaxSessionLen) :
           \E chunk \in TextsOver(SessionAlphabet, k) : AppendChunk(chunk)
    \/ Reset
    \/ GetCurrentData
    \/ \E p \in SingleFieldPartials : UpdateConfig(p)

\* a session used through all of its operations
Spec == Init /\ [][Next]_vars

NextStream ==
    \E k \in FittingLengths(MaxLen) :
        \E chunk \in TextsOfLen(k) : AppendChunk(chunk)

\* a session that is only appended to: a stream arriving in chunks
SpecStream == Init /\ [][NextStream]_vars

InitOneShot ==
    /\ \E p \in PartialConfigsWithDummyValues : Constructed(p)
    /\ other = Fresh(NoPartial)

\* validateStreamingJson(text, config): the one appendChunk of a new session
NextOneShot ==
    /\ op = "new"
    /\ \E k \in 0..MaxOneShot :
           \E text \in TextsOver(OneShotAlphabet, k) : AppendChunk(text)

\* a text balanced in one call, under every configuration
SpecOneShot == InitOneShot /\ [][NextOneShot]_vars

\* the session the calls are made on, as it is parked
Parked ==
    [config |-> config, lastParsedData |-> lastParsedData,
     lastBalancedString |-> lastBalancedString,
     addedDummyValues |-> addedDummyValues,
     input |-> input, raw |-> raw, history |-> history]

\* the caller turns to its other session: the next calls are made on it
Switch ==
    /\ config' = other.config
    /\ lastParsedData' = other.lastParsedData
    /\ lastBalancedString' = other.lastBalancedString
    /\ addedDummyValues' = other.addedDummyValues
    /\ input' = other.input
    /\ raw' = other.raw
    /\ history' = other.history
    /\ other' = Parked
    /\ op' = "switch"
    /\ ret' = JsUndefined
    /\ partial' = NoPartial
    /\ UNCHANGED defaultConfig

InitPair ==
    \E p \in PairPartials, q \in PairPartials :
        Constructed(p) /\ other = Fresh(q)

NextPair ==
    \/ \E k \in FittingLengths(MaxPairLen) :
           \E chunk \in TextsOver(PairAlphabet, k) : AppendChunk(chunk)
    \/ Reset
    \/ GetCurrentData
    \/ \E p \in PairPartials : UpdateConfig(p)
    \/ Switch

\* two sessions of one caller, the calls on them interleaved
SpecPair == InitPair /\ [][NextPair]_vars

NextConfig ==
    \/ \E k \in FittingLengths(MaxPairLen) :
           \E chunk \in TextsOver(PairAlphabet, k) : AppendChunk(chunk)
    \/ \E p \in PartialConfigsWithDummyValues : UpdateConfig(p)

\* a session reconfigured, with every partial configuration, between appends
SpecConfig == InitOneShot /\ [][NextConfig]_vars

(***************************************************************************)
(* Properties.                                                             *)
(***************************************************************************)
Reverse(s) == [i \in 1..Len(s) |-> s[Len(s) + 1 - i]]

OnlyWhitespace(s) == \A i \in 1..Len(s) : IsWhitespace(s[i])

IsQuoteRecord(d) == d.type = "quote"
IsValueRecord(d) == d.type = "value"
IsBracketRecord(d) == d.type = "bracket"

Appended == op = "appendChunk"

\* the text the bracket pass scanned: the input and the quote the quote pass added
Scanned ==
    SubSeq(lastBalancedString, 1,
           Len(input) + Len(SelectSeq(addedDummyValues, IsQuoteRecord)))

\* the length of the placeholder value the bracket pass added
ValueLen ==
    IF SelectSeq(addedDummyValues, IsValueRecord) = <<>> THEN 0 ELSE Len(NullText)

\* the closers the bracket pass appended
AppendedClosers ==
    SubSeq(lastBalancedString, Len(Scanned) + ValueLen + 1, Len(lastBalancedString))

\* the last append's return value is the decoded balanced text
ReturnedDecoded ==
    /\ JSONparse(lastBalancedString).ok
    /\ ret = JSONparse(lastBalancedString).val

\* x ends outside any string with every bracket matched
Closed(x) ==
    LET st == BracketScan(x) IN ~st.inString /\ st.stack = <<>>

\* C1: after every append the bracket scan of the balanced text ends with an
\* empty bracket stack (stated for the default configuration, one of the
\* configurations the claim covers).
C1_StructuralClosure ==
    (Appended /\ config = DEFAULT_CONFIG)
        => BracketScan(lastBalancedString).stack = <<>>

\* C2: with balanceQuotes enabled and a non-empty input, the balanced text does
\* not end inside a string under the quote pass's own string and escape rules.
C2_NoOpenString ==
    (Appended /\ config.balanceQuotes /\ input # <<>>)
        => ~QuoteScan(lastBalancedString, config.quoteType).inString

\* the longest continuation tried when asking whether a stream can still
\* become a valid JSON document
MaxExt == 2

\* t is the beginning of a valid JSON document
CanComplete(t) == \E e \in TextsUpTo(MaxExt) : JSONparse(t \o e).ok

\* the default configuration in parsed mode
ParsedDefault == [DEFAULT_CONFIG EXCEPT !.returnParsedJson = TRUE]

\* C3: in parsed mode, whenever the stream so far is the beginning of a valid
\* JSON document and holds at least one token, appendChunk returns a decoded
\* JSON value, not the fallback text (stated for the default quote handling).
C3_ValidAtEveryObservation ==
    (Appended /\ config = ParsedDefault /\ ~OnlyWhitespace(raw) /\ CanComplete(raw))
        => ReturnedDecoded

C5_TrailingCommaRemoved ==
    LET st == BracketScan(Scanned)
        k  == st.lastNonWhitespaceIndex
    IN  (Appended /\ ~st.inString /\ Len(st.stack) > 0
                  /\ st.lastNonWhitespaceChar = ",")
            => /\ lastBalancedString =
                      SubSeq(Scanned, 1, k) \o SubSeq(Scanned, k + 2, Len(Scanned))
                          \o Reverse(st.stack)
               /\ JSONparse(lastBalancedString).ok

\* C6 as claimed: after every append the balanced text is the one-shot balance
\* of the whole stream under the session's configuration, and in parsed mode a
\* stream that is a valid JSON document returns its decoded value.
C6_ChunkingIndependence ==
    Appended =>
        /\ lastBalancedString = validateAndBalance(raw, config).balanced
        /\ (config.returnParsedJson /\ JSONparse(raw).ok)
               => ret = JSONparse(raw).val

\* C6 as amended: the same, the decoded value being promised only when the quote
\* pass does not run with quoteType 'single'.
C6_ChunkingIndependenceAmended ==
    Appended =>
        /\ lastBalancedString = validateAndBalance(raw, config).balanced
        /\ (config.returnParsedJson /\ JSONparse(raw).ok
                /\ ~(config.balanceQuotes /\ config.quoteType = "single"))
               => ret = JSONparse(raw).val

\* C6 witness: a valid array that arrived in more than one chunk (it is longer
\* than a chunk can be) has been decoded.
C6_Witness ==
    /\ Appended
    /\ config.returnParsedJson
    /\ Len(raw) > MaxChunk
    /\ raw[1] = "["
    /\ JSONparse(raw).ok
    /\ ret = JSONparse(raw).val

\* C7: under the default configuration, an input whose strings are closed and
\* whose brackets are matched is returned unchanged with no insertions, and
\* balancing the result again returns it again.
C7_ValidIsFixedPoint ==
    (Appended /\ config = DEFAULT_CONFIG /\ Closed(input))
        => /\ lastBalancedString = input
           /\ addedDummyValues = <<>>
           /\ ret = JsString(input)
           /\ validateStreamingJson(ret.str, config) = ret

\* C7 witness: a complete array has been balanced under the default configuration.
C7_Witness ==
    /\ Appended
    /\ config = DEFAULT_CONFIG
    /\ input = <<"[", "1", "]">>
    /\ lastBalancedString = input

\* C8: an empty or whitespace-only input comes back verbatim with no insertions,
\* as text even in parsed mode.
C8_EmptyOrWhitespace ==
    (Appended /\ OnlyWhitespace(input))
        => /\ lastBalancedString = input
           /\ addedDummyValues = <<>>
           /\ ret = JsString(input)

\* C8 witness: the empty string has been appended in parsed mode.
C8_Witness ==
    /\ Appended
    /\ config.returnParsedJson
    /\ input = <<>>
    /\ ret = JsString(<<>>)

\* C9: 'null' is appended, once and before any closer, exactly when the bracket
\* stack is non-empty and the last significant character is ':'.
C9_NullAfterColon ==
    Appended =>
        LET st     == BracketScan(Scanned)
            values == SelectSeq(addedDummyValues, IsValueRecord)
            due    == Len(st.stack) > 0 /\ st.lastNonWhitespaceChar = ":"
        IN  /\ Len(values) = IF due THEN 1 ELSE 0
            /\ due => /\ values[1].position = Len(Scanned)
                      /\ values[1].value = NullText
            /\ lastBalancedString =
                   Scanned \o (IF due THEN NullText ELSE <<>>) \o AppendedClosers
            /\ \A i \in 1..Len(AppendedClosers) : AppendedClosers[i] \in {"}", "]"}

\* C9 witness: an object cut off after a colon has received its null.
C9_Witness ==
    /\ Appended
    /\ input = <<"{", ":">>
    /\ lastBalancedString = <<"{", ":">> \o NullText \o <<"}">>

\* C10: the closers appended are those of the brackets still open at the end of
\* the scan, one each, innermost first, each recorded at its position.
C10_ClosersLIFO ==
    Appended =>
        LET st       == BracketScan(Scanned)
            brackets == SelectSeq(addedDummyValues, IsBracketRecord)
        IN  /\ AppendedClosers = Reverse(st.stack)
            /\ Len(brackets) = Len(st.stack)
            /\ \A i \in 1..Len(brackets) :
                   /\ brackets[i].value = <<AppendedClosers[i]>>
                   /\ brackets[i].position = Len(Scanned) + ValueLen + i - 1

\* C10 witness: an array inside an object, both left open, has been closed.
C10_Witness ==
    /\ Appended
    /\ input = <<"{", "[">>
    /\ lastBalancedString = <<"{", "[", "]", "}">>

\* the state of the quote pass after the first i characters of x
QuoteStateAt(x, i, quoteType) == QuoteScan(SubSeq(x, 1, i), quoteType)

\* the state of the bracket pass after the first i characters of x
BracketStateAt(x, i) == BracketScan(SubSeq(x, 1, i))

\* the index at which the string still open at the end of x was opened
LastOpening(x, quoteType) ==
    CHOOSE i \in 1..Len(x) :
        /\ ~QuoteStateAt(x, i - 1, quoteType).inString
        /\ \A j \in i..Len(x) : QuoteStateAt(x, j, quoteType).inString

\* C11: with balanceQuotes enabled, a quote scan that ends inside a string makes
\* the quote pass append the character that opened the string, once, recorded
\* as the quote insertion at the new last position; otherwise it appends nothing.
C11_QuoteClosing ==
    (Appended /\ config.balanceQuotes /\ input # <<>>) =>
        LET quotes == SelectSeq(addedDummyValues, IsQuoteRecord) IN
        IF QuoteScan(input, config.quoteType).inString
        THEN LET opener == input[LastOpening(input, config.quoteType)] IN
             /\ opener \in {DQ, SQ}
             /\ Scanned = Append(input, opener)
             /\ quotes = << [position |-> Len(Scanned) - 1, value |-> <<opener>>,
                             type |-> "quote"] >>
             /\ addedDummyValues[1] = quotes[1]
        ELSE /\ quotes = <<>>
             /\ Scanned = input

\* C11 witness: a string opened by an apostrophe has been closed by one.
C11_Witness ==
    /\ Appended
    /\ config.balanceQuotes
    /\ input = <<SQ, "1">>
    /\ lastBalancedString = <<SQ, "1", SQ>>

StructuralChars == {"{", "}", "[", "]", ":", ","}

\* the character at index i of x lies inside a string of the bracket pass
InsideString(x, i) ==
    BracketStateAt(x, i - 1).inString /\ BracketStateAt(x, i).inString

\* x with the structural characters inside its strings replaced by a digit
Neutralized(x) ==
    [i \in 1..Len(x) |->
        IF InsideString(x, i) /\ x[i] \in StructuralChars THEN "1" ELSE x[i]]

\* C12: a character inside a string changes neither the bracket stack nor the
\* last significant character, and the value and closers appended are those of
\* the same text with the structural characters inside its strings replaced.
C12_StringContentsInert ==
    Appended =>
        /\ \A i \in 1..Len(Scanned) :
               InsideString(Scanned, i) =>
                   LET before == BracketStateAt(Scanned, i - 1)
                       after  == BracketStateAt(Scanned, i)
                   IN  /\ after.stack = before.stack
                       /\ after.lastNonWhitespaceChar = before.lastNonWhitespaceChar
                       /\ after.lastNonWhitespaceIndex = before.lastNonWhitespaceIndex
        /\ SubSeq(lastBalancedString, Len(Scanned) + 1, Len(lastBalancedString))
               = LET b == balanceBrackets(Neutralized(Scanned)).balanced
                 IN  SubSeq(b, Len(Scanned) + 1, Len(b))

\* C12 witness: a brace inside a string of an open array has been
\* balanced, and only the array was closed.
C12_Witness ==
    /\ Appended
    /\ Scanned = <<"[", DQ, "{", DQ>>
    /\ lastBalancedString = <<"[", DQ, "{", DQ, "]">>

\* C13: when both passes run, they compute the same in-string state at every
\* index of the text: a quote character outside quoteType delimits no string in
\* the bracket pass either.
C13_QuoteTypeScoping ==
    (Appended /\ config.balanceQuotes) =>
        \A i \in 0..Len(Scanned) :
            QuoteStateAt(Scanned, i, config.quoteType).inString
                = BracketStateAt(Scanned, i).inString

\* C14: in parsed mode an append whose balanced text does not decode returns
\* that text, and the session holds the balance of the whole stream with its
\* insertions, as after any other append.
C14_DecodeFailureNonFatal ==
    (Appended /\ config.returnParsedJson /\ ~JSONparse(lastBalancedString).ok) =>
        /\ ret = JsString(lastBalancedString)
        /\ input = raw
        /\ lastBalancedString = validateAndBalance(raw, config).balanced
        /\ addedDummyValues = validateAndBalance(raw, config).dummyValues

\* C14 witness: a later append of a session in parsed mode has fallen back to
\* the balanced text.
C14_Witness ==
    /\ Appended
    /\ config.returnParsedJson
    /\ history.phase = "later"
    /\ raw = <<"[", ",">>
    /\ ret = JsString(<<"[", ",", "]">>)

\* the value of a session nothing has been appended to
EmptyData == IF config.returnParsedJson THEN JsNull ELSE JsString(<<>>)

NothingAppended == history.phase \in {"new", "reset"}

SessionUnchanged ==
    UNCHANGED <<config, lastParsedData, lastBalancedString, addedDummyValues>>

ReadAfterOnlyAppend ==
    history.phase = "once" /\ op = "appendChunk" /\ op' = "getCurrentData"

\* C16 as claimed: getCurrentData read after the one appendChunk(text) of a new
\* session returns what validateStreamingJson(text, config) returns.
C16_OneShotEquivalence ==
    [][ReadAfterOnlyAppend => ret' = validateStreamingJson(raw, config)]_vars

\* C16 as amended: the appendChunk(text) call of a new session returns what
\* validateStreamingJson(text, config) returns, and so does getCurrentData read
\* after it when returnParsedJson is false or the balanced text decodes.
C16_OneShotEquivalenceAmended ==
    [][/\ (op = "new" /\ op' = "appendChunk")
              => ret' = validateStreamingJson(raw', config)
       /\ (/\ ReadAfterOnlyAppend
           /\ config.returnParsedJson => JSONparse(lastBalancedString).ok)
              => ret' = validateStreamingJson(raw, config)]_vars

\* C16 witness: getCurrentData has returned the decoded one-shot result of the
\* only chunk of a new session.
C16_Witness ==
    /\ op = "getCurrentData"
    /\ history.phase = "once"
    /\ config.returnParsedJson
    /\ raw = <<"[", "1">>
    /\ ret = validateStreamingJson(raw, config)
    /\ ret = [t |-> "arr", arr |-> <<[t |-> "num", num |-> 1]>>]

\* C17: reset clears the session and leaves the configuration alone; after it
\* getCurrentData returns the initial empty value, and the next appendChunk(c)
\* gives the one-shot balance of c.
C17_ResetRestoresInitial ==
    [][/\ op' = "reset" =>
              /\ config' = config
              /\ lastBalancedString' = <<>>
              /\ addedDummyValues' = <<>>
              /\ lastParsedData' = JsNull
       /\ (history.phase = "reset" /\ op' = "getCurrentData")
              => ret' = EmptyData
       /\ (history.phase = "reset" /\ op' = "appendChunk") =>
              /\ input' = raw'
              /\ ret' = validateStreamingJson(raw', config)
              /\ lastBalancedString' = validateAndBalance(raw', config).balanced
              /\ addedDummyValues' = validateAndBalance(raw', config).dummyValues]_vars

\* C17 witness: a session that had balanced a text has been reset.
C17_Witness ==
    /\ op = "reset"
    /\ input # <<>>
    /\ lastBalancedString = <<>>
    /\ addedDummyValues = <<>>
    /\ lastParsedData = JsNull

\* C18: updateConfig does not change the value getCurrentData returns.
C18_UpdateConfigKeepsCurrentData ==
    [][op' = "updateConfig" => CurrentData' = CurrentData]_vars

\* C19: with returnParsedJson false an append returns the balanced text; with
\* returnParsedJson true it returns the decoded value of the balanced text
\* whenever that text decodes; validateStreamingJson returns the same.
C19_ReturnMode ==
    Appended =>
        /\ ~config.returnParsedJson => ret = JsString(lastBalancedString)
        /\ (config.returnParsedJson /\ JSONparse(lastBalancedString).ok)
               => ret = JSONparse(lastBalancedString).val
        /\ validateStreamingJson(input, config) = ret

\* C19 witness: an open array has been returned decoded.
C19_Witness ==
    /\ Appended
    /\ config.returnParsedJson
    /\ input = <<"[", "1">>
    /\ ret = [t |-> "arr", arr |-> <<[t |-> "num", num |-> 1]>>]

\* C20: with balanceQuotes false no quote is inserted and the bracket pass runs
\* on the input itself; an input that ends inside a string opened after a ':'
\* comes back followed by 'null' and the closers.
C20_QuotePassSkipped ==
    (Appended /\ ~config.balanceQuotes) =>
        LET st == BracketScan(input) IN
        /\ SelectSeq(addedDummyValues, IsQuoteRecord) = <<>>
        /\ lastBalancedString = balanceBrackets(input).balanced
        /\ (st.inString /\ st.lastNonWhitespaceChar = ":" /\ Len(st.stack) > 0)
               => lastBalancedString = input \o NullText \o Reverse(st.stack)

\* C20 witness: an object cut off inside the string after its colon has been
\* given 'null' and its closer, and no quote.
C20_Witness ==
    /\ Appended
    /\ ~config.balanceQuotes
    /\ input = <<"{", ":", DQ>>
    /\ lastBalancedString = <<"{", ":", DQ>> \o NullText \o <<"}">>

\* the insertions of the last balance that are placeholder values
ValueRecords == SelectSeq(addedDummyValues, IsValueRecord)

\* C21: the placeholder the bracket pass appends for a value missing after a
\* colon is the literal configured in dummyValues.null.
C21_ConfiguredPlaceholder ==
    Appended =>
        \A i \in 1..Len(ValueRecords) :
            ValueRecords[i].value = config.dummyValues.null

\* the kinds of value appendChunk returns: a text, or a decoded JSON value
ReturnKinds == {"str", "num", "arr", "obj", "null"}

\* C22: for every text and every configuration the balance is computed and
\* appendChunk returns a value: the balanced text, or in parsed mode a decoded
\* value; the balanced text is the input and at most a quote, a placeholder
\* and one closer for each character of the input.
C22_Totality ==
    Appended =>
        /\ ret.t \in ReturnKinds
        /\ ~config.returnParsedJson => ret = JsString(lastBalancedString)
        /\ IsPrefix(input, lastBalancedString)
        /\ Len(lastBalancedString) <= 2 * Len(input) + 1 + Len(NullText)

\* C22 witness: a text of stray closers, quotes and a backslash has been
\* balanced in parsed mode, and the text came back.
C22_Witness ==
    /\ Appended
    /\ config.returnParsedJson
    /\ input = <<"}", SQ, BS, DQ>>
    /\ ret = JsString(lastBalancedString)

\* the text the next appendChunk will put its chunk after
RetractedBase ==
    IF lastBalancedString = <<>> THEN <<>>
    ELSE RemoveDummies(lastBalancedString, SortDesc(addedDummyValues))

\* C23: the text a chunk is appended to is exactly the chunks supplied so far:
\* retraction removes every insertion of the previous balance and no character
\* of the caller's, so every balance runs on the concatenation of the chunks.
C23_ConservativeRetraction ==
    /\ RetractedBase = raw
    /\ Appended => input = raw

\* C23 witness: a chunk has been appended after the placeholder and the closer
\* of the previous round were retracted.
C23_Witness ==
    /\ Appended
    /\ history.phase = "later"
    /\ raw = <<"{", ":", "1">>
    /\ input = raw
    /\ lastBalancedString = <<"{", ":", "1", "}">>

\* C24: a stored parsed value is present only if the most recent appendChunk
\* ran with returnParsedJson true and its balanced text decoded, and then it
\* is the value of that text: no value decoded by an earlier appendChunk is
\* left for getCurrentData to return.
C24_ParsedValueOfLastAppend ==
    lastParsedData # JsNull =>
        /\ ~NothingAppended
        /\ history.mode
        /\ JSONparse(lastBalancedString).ok
        /\ lastParsedData = JSONparse(lastBalancedString).val

\* the values of the insertion records ds, concatenated in list order
RECURSIVE ConcatValues(_)
ConcatValues(ds) ==
    IF ds = <<>> THEN <<>> ELSE Head(ds).value \o ConcatValues(Tail(ds))

\* quote before value before bracket
TypeRank(d) ==
    IF IsQuoteRecord(d) THEN 1 ELSE IF IsValueRecord(d) THEN 2 ELSE 3

\* C25: the balanced text is the balancer's input followed by the values of
\* the insertion records in list order; each record's position is the offset
\* at which its value begins; positions increase strictly; the order is quote
\* (at most one), value (at most one), brackets; the list is empty when
\* nothing was appended.
C25_InsertionRecords ==
    Appended =>
        LET ds == addedDummyValues IN
        /\ lastBalancedString = input \o ConcatValues(ds)
        /\ \A i \in 1..Len(ds) :
               /\ ds[i].position = Len(input) + Len(ConcatValues(SubSeq(ds, 1, i - 1)))
               /\ ds[i].type \in {"quote", "value", "bracket"}
               /\ Len(ds[i].value) > 0
        /\ \A i \in 1..Len(ds), j \in 1..Len(ds) :
               i < j => /\ ds[i].position < ds[j].position
                        /\ TypeRank(ds[i]) <= TypeRank(ds[j])
        /\ Len(SelectSeq(ds, IsQuoteRecord)) <= 1
        /\ Len(ValueRecords) <= 1
        /\ lastBalancedString = input => ds = <<>>

\* C25 witness: a quote, a placeholder and a closer have been inserted, in
\* that order, after an input of four characters.
C25_Witness ==
    /\ Appended
    /\ input = <<"{", ":", DQ, BS>>
    /\ addedDummyValues =
           << [position |-> 4, value |-> <<DQ>>, type |-> "quote"],
              [position |-> 5, value |-> NullText, type |-> "value"],
              [position |-> 9, value |-> <<"}">>, type |-> "bracket"] >>

\* the states before and after character i of a scan obey the escape rule:
\* an escaped character changes nothing but the flag, which it clears, and
\* the flag is set by an unescaped backslash and by nothing else
EscapeRule(before, after, char) ==
    /\ before.escaped => after = [before EXCEPT !.escaped = FALSE]
    /\ ~before.escaped => (after.escaped <=> char = BS)
    /\ (~before.escaped /\ char = BS) => after = [before EXCEPT !.escaped = TRUE]

\* C26: in both passes the character after an unescaped backslash is inert
\* (the scan state keeps its string state, its stack and its last significant
\* character) and clears the escape flag, so that the character after two
\* consecutive backslashes is scanned unescaped.
C26_EscapeHandling ==
    Appended =>
        /\ \A i \in 1..Len(Scanned) :
               EscapeRule(BracketStateAt(Scanned, i - 1),
                          BracketStateAt(Scanned, i), Scanned[i])
        /\ \A i \in 1..Len(input) :
               EscapeRule(QuoteStateAt(input, i - 1, config.quoteType),
                          QuoteStateAt(input, i, config.quoteType), input[i])
        /\ \A i \in 3..Len(input) :
               (/\ input[i - 2] = BS
                /\ input[i - 1] = BS
                /\ ~BracketStateAt(input, i - 3).escaped)
                   => /\ ~BracketStateAt(input, i - 1).escaped
                      /\ ~QuoteStateAt(input, i - 1, config.quoteType).escaped

\* C26 witness: of two brackets after a backslash the first, escaped, has been
\* left unclosed and the second has been closed.
C26_Witness ==
    /\ Appended
    /\ config = DEFAULT_CONFIG
    /\ input = <<BS, "[", "[">>
    /\ lastBalancedString = <<BS, "[", "[", "]">>

\* the input ends with an unescaped backslash inside a string that both
\* passes opened at the same character
EndsWithLoneBackslashInString ==
    LET qs == QuoteScan(input, config.quoteType) IN
    /\ input # <<>>
    /\ qs.inString
    /\ qs.escaped
    /\ ~BracketStateAt(input, LastOpening(input, config.quoteType) - 1).inString

CloserOutsideString(x, i) ==
    /\ x[i] \in {"}", "]"}
    /\ ~BracketStateAt(x, i - 1).escaped
    /\ ~BracketStateAt(x, i - 1).inString

\* character i of x is a closer that does not match the top of the stack
StrayCloser(x, i) ==
    LET stack == BracketStateAt(x, i - 1).stack IN
    /\ CloserOutsideString(x, i)
    /\ (stack = <<>> \/ stack[Len(stack)] # x[i])

\* C28: a closer outside a string pops the stack when it equals the top and
\* otherwise leaves the stack as it is; the text scanned is kept whole, and
\* every opener on the stack at the end receives its closer.
C28_StrayClosersTolerated ==
    Appended =>
        /\ \A i \in 1..Len(Scanned) :
               CloserOutsideString(Scanned, i) =>
                   LET stack == BracketStateAt(Scanned, i - 1).stack IN
                   BracketStateAt(Scanned, i).stack =
                       IF StrayCloser(Scanned, i) THEN stack
                       ELSE DropLast(stack, 1)
        /\ IsPrefix(Scanned, lastBalancedString)
        /\ AppendedClosers = Reverse(BracketScan(Scanned).stack)

\* C28 witness: a '}' met inside an open array has been left in the text and
\* the array has been closed after it.
C28_Witness ==
    /\ Appended
    /\ input = <<"[", "}">>
    /\ StrayCloser(input, 2)
    /\ lastBalancedString = <<"[", "}", "]">>

\* C29: updateConfig(p) leaves the balanced text, the insertion list and the
\* stored parsed value as they are; in the new configuration every field p
\* supplies has the value p gives it and every other field its old value.
C29_UpdateConfigFrameAndMerge ==
    [][op' = "updateConfig" =>
          /\ UNCHANGED <<lastBalancedString, addedDummyValues, lastParsedData>>
          /\ \A f \in AllConfigFields :
                 config'[f] = IF f \in partial'.has
                              THEN partial'.val[f] ELSE config[f]]_vars

\* C29 witness: a session holding a balanced text has been given a new
\* quoteType and returnParsedJson, and kept the balanceQuotes and dummyValues
\* it was constructed with.
C29_Witness ==
    /\ op = "updateConfig"
    /\ partial.has = {"quoteType", "returnParsedJson"}
    /\ config = [balanceQuotes |-> FALSE, quoteType |-> "single",
                 returnParsedJson |-> TRUE, dummyValues |-> [null |-> <<"0">>]]
    /\ lastBalancedString = <<"[", "]">>
    /\ addedDummyValues # <<>>

\* C30: of two sessions used in turn, a call on one leaves the other as it
\* was, and the other is found as it was left when the caller turns to it;
\* every appendChunk balances the chunks of its own session only, returning
\* what one call on their concatenation returns; DEFAULT_CONFIG stays as
\* written in the source.
C30_SessionIsolation ==
    [][/\ defaultConfig' = DEFAULT_CONFIG
       /\ op' # "switch" => other' = other
       /\ op' = "switch" => (Parked' = other /\ other' = Parked)
       /\ op' = "appendChunk" =>
              /\ input' = raw'
              /\ lastBalancedString' = validateAndBalance(raw', config').balanced
              /\ ret' = validateStreamingJson(raw', config')]_vars

\* C30 witness: a chunk has been appended to one session while the other,
\* configured differently, holds the balance of a different stream.
C30_Witness ==
    /\ Appended
    /\ raw = <<",">>
    /\ other.raw = <<"[">>
    /\ other.lastBalancedString = <<"[", "]">>
    /\ other.config.returnParsedJson
    /\ ~config.returnParsedJson
    /\ lastBalancedString = <<",">>

====
